---- MODULE Spec2Model ----
(***************************************************************************)
(* Content schema and section registry of the CUDA programming guide site. *)
(*                                                                         *)
(*   src/src/utils/constants.ts   SECTION_TITLES, SECTION_CATEGORIES       *)
(*   src/src/content.config.ts    the `sections` collection and its schema *)
(*                                                                         *)
(* The schema is a zod object schema: the model keeps it as data (one      *)
(* schema node per call of the zod chain) and interprets it with Parse,    *)
(* which follows zod's parsing of each node kind.                          *)
(***************************************************************************)
EXTENDS Integers, Sequences, FiniteSets, TLC

VARIABLES
    titles,      \* the SECTION_TITLES object as it is at run time
    categories,  \* the SECTION_CATEGORIES object as it is at run time
    imageImpl,   \* which `image` helper the framework hands to the schema function
    raw,         \* front-matter of the entry under validation (single-entry build)
    pc,          \* "loaded" | "validated" | "revalidated" | "rendered"
    out,         \* result of validating raw
    out2,        \* result of validating out.data again
    looked,      \* last registry lookup: [n, title, category]
    batch,       \* front-matter of every entry of a batch build
    results,     \* per entry of the batch: Pending or its validation result
    cursor,      \* number of entries of the batch already handed to a worker
    workers      \* per worker: [pc |-> "idle" | "parsing", entry |-> index]

vars == <<titles, categories, imageImpl, raw, pc, out, out2, looked,
          batch, results, cursor, workers>>

-----------------------------------------------------------------------------
(* Bounds of the model *)

MaxDeviations == 1   \* fields of a well-formed record replaced by another value
MinInt == 2          \* numeric inputs range over -MinInt .. MaxInt
MaxInt == 14
BatchSize == 2       \* entries of a batch build
NumWorkers == 2      \* workers validating a batch

-----------------------------------------------------------------------------
(* JavaScript values.  Every value has the same four fields so that any two *)
(* can be compared; `n` holds TWICE the number, so 1.5 is Half(3).          *)

Undefined == [t |-> "undefined", s |-> "", n |-> 0, items |-> <<>>]
Null      == [t |-> "null",      s |-> "", n |-> 0, items |-> <<>>]
Str(x)    == [t |-> "string",    s |-> x,  n |-> 0, items |-> <<>>]
Half(k)   == [t |-> "number",    s |-> "", n |-> k, items |-> <<>>]
Num(k)    == Half(2 * k)
Arr(xs)   == [t |-> "array",     s |-> "", n |-> 0, items |-> xs]
Obj(x)    == [t |-> "object",    s |-> x,  n |-> 0, items |-> <<>>]

IsInteger(v) == v.t = "number" /\ v.n % 2 = 0
IntOf(v)     == v.n \div 2

-----------------------------------------------------------------------------
(* constants.ts *)

TOTAL_SECTIONS == 12

SECTION_TITLES ==
    ( 1 :> "Introduction to the Nvidia GPUs hardware"
   @@ 2 :> "Installing CUDA and other programs"
   @@ 3 :> "Introduction to CUDA programming"
   @@ 4 :> "Profiling"
   @@ 5 :> "Performance analysis for the previous applications"
   @@ 6 :> "2D Indexing"
   @@ 7 :> "Shared Memory + Warp Divergence"
   @@ 8 :> "Debugging tools"
   @@ 9 :> "Vector Reduction"
   @@ 10 :> "Roofline model"
   @@ 11 :> "Matrix Multiplication (Bonus)"
   @@ 12 :> "Profiling - nsight systems" )

SECTION_CATEGORIES_Renamed ==
    ( 1 :> "gpu-hardware" @@ 2 :> "setup" @@ 3 :> "cuda-basics"
   @@ 4 :> "profiling" @@ 5 :> "performance" @@ 6 :> "indexing"
   @@ 7 :> "memory-optimization" @@ 8 :> "debugging" @@ 9 :> "reduction"
   @@ 10 :> "performance" @@ 11 :> "algorithms" @@ 12 :> "profiling" )

SECTION_CATEGORIES ==
    ( 1 :> "gpu-hardware"
   @@ 2 :> "setup"
   @@ 3 :> "cuda-basics"
   @@ 4 :> "profiling"
   @@ 5 :> "performance"
   @@ 6 :> "indexing"
   @@ 7 :> "memory-optimization"
   @@ 8 :> "debugging"
   @@ 9 :> "algorithms"
   @@ 10 :> "performance"
   @@ 11 :> "algorithms"
   @@ 12 :> "profiling" )

LookupThrowing(table, n) ==
    IF n \in DOMAIN table
    THEN [kind |-> "value", value |-> table[n]]
    ELSE [kind |-> "OutOfRangeError", value |-> ""]

(* A property read `table[n]` of a plain object: the own property's value   *)
(* when the key exists, and otherwise the value undefined; nothing throws.  *)
Lookup(table, n) ==
    IF n \in DOMAIN table
    THEN [kind |-> "value", value |-> table[n]]
    ELSE [kind |-> "undefined", value |-> ""]

-----------------------------------------------------------------------------
(* content.config.ts: the schema, one node per call of the zod chain *)

ZString        == [kind |-> "string"]
ZNumber(cs)    == [kind |-> "number", checks |-> cs]
ZEnum(vs)      == [kind |-> "enum", values |-> vs]
ZArray(el)     == [kind |-> "array", element |-> el]
ZOptional(in)  == [kind |-> "optional", inner |-> in]
ZDefault(in, d) == [kind |-> "default", inner |-> in, def |-> d]
ZImage         == [kind |-> "image"]

CheckInt    == [kind |-> "int", value |-> 0]
CheckMin(k) == [kind |-> "min", value |-> k]
CheckMax(k) == [kind |-> "max", value |-> k]

DifficultyEnum == <<"beginner", "intermediate", "advanced">>

CategoryEnumNoAlgorithms ==
    << "gpu-hardware", "setup", "cuda-basics", "profiling", "performance",
       "indexing", "memory-optimization", "debugging" >>

CategoryEnum ==
    << "gpu-hardware", "setup", "cuda-basics", "profiling", "performance",
       "indexing", "memory-optimization", "debugging", "algorithms" >>

titleSchemaOptional         == ZOptional(ZString)
sectionNumberSchemaFromZero == ZNumber(<<CheckInt, CheckMin(0), CheckMax(12)>>)
lectureNumberSchemaFromOne  == ZNumber(<<CheckInt, CheckMin(1)>>)
tagsSchemaNoDefault         == ZOptional(ZArray(ZString))

titleSchema         == ZString
descriptionSchema   == ZString
sectionNumberSchema == ZNumber(<<CheckInt, CheckMin(1), CheckMax(12)>>)
sectionTitleSchema  == ZString
lectureNumberSchema == ZNumber(<<CheckInt, CheckMin(0)>>)
lectureTitleSchema  == ZOptional(ZString)
difficultySchema    == ZDefault(ZEnum(DifficultyEnum), Str("beginner"))
tagsSchema          == ZDefault(ZArray(ZString), Arr(<<>>))
categorySchema      == ZDefault(ZEnum(CategoryEnum), Str("gpu-hardware"))
thumbnailSchema     == ZOptional(ZImage)
orderSchema         == ZNumber(<<CheckInt>>)

Fields ==
    { "title", "description", "sectionNumber", "sectionTitle", "lectureNumber",
      "lectureTitle", "difficulty", "tags", "category", "thumbnail", "order" }

schema ==
    [ title         |-> titleSchema,
      description   |-> descriptionSchema,
      sectionNumber |-> sectionNumberSchema,
      sectionTitle  |-> sectionTitleSchema,
      lectureNumber |-> lectureNumberSchema,
      lectureTitle  |-> lectureTitleSchema,
      difficulty    |-> difficultySchema,
      tags          |-> tagsSchema,
      category      |-> categorySchema,
      thumbnail     |-> thumbnailSchema,
      order         |-> orderSchema ]

-----------------------------------------------------------------------------
(* The `image` helper the framework passes to the schema function: a string *)
(* schema with a transform.  The source leaves the transform to the         *)
(* framework: a content-layer build turns the path into an import marker,   *)
(* a build with a plugin context resolves it into an image metadata object. *)

ImageImpls == {"import-prefix", "metadata"}

IMAGE_IMPORT_PREFIX == "__ASTRO_IMAGE_"

image(s, impl) ==
    IF impl = "import-prefix" THEN Str(IMAGE_IMPORT_PREFIX \o s) ELSE Obj(s)

-----------------------------------------------------------------------------
(* zod parsing.  A parse yields the issues found (a path below the node and *)
(* an issue code) and the output value, which counts only without issues.   *)

Issue(path, code) == [path |-> path, code |-> code]

CheckFails(c, v) ==
    CASE c.kind = "int" -> ~IsInteger(v)
      [] c.kind = "min" -> v.n < 2 * c.value
      [] c.kind = "max" -> v.n > 2 * c.value

CheckCode(c) ==
    CASE c.kind = "int" -> "invalid_type"
      [] c.kind = "min" -> "too_small"
      [] c.kind = "max" -> "too_big"

MemberIgnoreCase(xs, x) ==
    LET fold(y) == CASE y = "GPU-Hardware" -> "gpu-hardware"
                     [] y = "Beginner" -> "beginner"
                     [] OTHER -> y
    IN  \E i \in 1..Len(xs) : xs[i] = fold(x)

(* values.indexOf(data) !== -1: strict equality with a member *)
Member(xs, x) == \E i \in 1..Len(xs) : xs[i] = x

Valid(v)      == [issues |-> {}, value |-> v]
Invalid(code) == [issues |-> {Issue(<<>>, code)}, value |-> Undefined]

RECURSIVE Parse(_, _, _)

ParseString(v) == IF v.t = "string" THEN Valid(v) ELSE Invalid("invalid_type")

(* every failing check of the chain adds its issue *)
ParseNumber(node, v) ==
    IF v.t # "number" THEN Invalid("invalid_type")
    ELSE [issues |-> { Issue(<<>>, CheckCode(node.checks[i])) :
                         i \in { j \in 1..Len(node.checks) : CheckFails(node.checks[j], v) } },
          value |-> v]

ParseEnum(node, v) ==
    IF v.t # "string" THEN Invalid("invalid_type")
    ELSE IF ~Member(node.values, v.s) THEN Invalid("invalid_enum_value")
    ELSE Valid(v)

(* each element is parsed under its index; the output is a new array *)
ParseArray(node, v, impl) ==
    IF v.t # "array" THEN Invalid("invalid_type")
    ELSE LET el(i) == Parse(node.element, v.items[i], impl)
         IN  [issues |-> UNION { { Issue(<<ToString(i - 1)>> \o x.path, x.code) :
                                     x \in el(i).issues } :
                                 i \in 1..Len(v.items) },
              value |-> Arr([i \in 1..Len(v.items) |-> el(i).value])]

ParseOptionalAsNull(node, v, impl) ==
    IF v.t = "undefined" THEN Valid(Null) ELSE Parse(node.inner, v, impl)

(* undefined passes as undefined, anything else goes to the inner schema *)
ParseOptional(node, v, impl) ==
    IF v.t = "undefined" THEN Valid(Undefined) ELSE Parse(node.inner, v, impl)

(* undefined is replaced by the default, which the inner schema then parses *)
ParseDefault(node, v, impl) ==
    IF v.t = "undefined"
    THEN Parse(node.inner, node.def, impl)
    ELSE Parse(node.inner, v, impl)

ParseImage(v, impl) ==
    IF v.t = "string" THEN Valid(image(v.s, impl)) ELSE Invalid("invalid_type")

Parse(node, v, impl) ==
    CASE node.kind = "string"   -> ParseString(v)
      [] node.kind = "number"   -> ParseNumber(node, v)
      [] node.kind = "enum"     -> ParseEnum(node, v)
      [] node.kind = "array"    -> ParseArray(node, v, impl)
      [] node.kind = "optional" -> ParseOptional(node, v, impl)
      [] node.kind = "default"  -> ParseDefault(node, v, impl)
      [] node.kind = "image"    -> ParseImage(v, impl)

(* data[key] of the front-matter object: undefined for a key it lacks *)
Get(input, f) == IF f \in DOMAIN input THEN input[f] ELSE Undefined

(* z.object({...}): every key of the shape is parsed, the issues of all of  *)
(* them are collected under the key's name, keys outside the shape are      *)
(* stripped, and the output exists only when there is no issue.             *)
NoEntry == [f \in Fields |-> Undefined]

safeParse(input, impl) ==
    LET field(f) == Parse(schema[f], Get(input, f), impl)
        issues   == UNION { { Issue(<<f>> \o x.path, x.code) : x \in field(f).issues } :
                            f \in Fields }
    IN  IF issues = {}
        THEN [ok |-> TRUE, data |-> [f \in Fields |-> field(f).value], issues |-> {}]
        ELSE [ok |-> FALSE, data |-> NoEntry, issues |-> issues]

-----------------------------------------------------------------------------
(* Front-matter records the build may be given *)

InputKeys == Fields \cup {"draft"}   \* "draft": a key the schema does not know

Ints == { Num(k) : k \in -MinInt..MaxInt }

Strings(xs) == { Str(xs[i]) : i \in 1..Len(xs) }

Alternatives(f) ==
    CASE f \in {"title", "description", "sectionTitle"} ->
           {Undefined, Str(""), Num(1)}
      [] f \in {"sectionNumber", "lectureNumber"} ->
           {Undefined, Str("1"), Half(3)} \cup Ints
      [] f = "lectureTitle" -> {Undefined, Str(""), Str("Kernel launch"), Num(1)}
      [] f = "difficulty" ->
           {Undefined, Null, Num(1), Str("Beginner"), Str("expert"), Str("")}
             \cup Strings(DifficultyEnum)
      [] f = "tags" ->
           { Undefined, Null, Str("cuda"), Arr(<<>>), Arr(<<Str("cuda")>>),
             Arr(<<Str("gpu"), Str("cuda")>>), Arr(<<Str("cuda"), Num(1)>>) }
      [] f = "category" ->
           {Undefined, Null, Num(1), Str("networking"), Str("GPU-Hardware"), Str("")}
             \cup Strings(CategoryEnum)
      [] f = "thumbnail" -> {Undefined, Str("./thumb.png"), Num(1)}
      [] f = "order" -> {Undefined, Str("1"), Half(1), Num(-1), Num(0), Num(1)}
      [] f = "draft" -> {Undefined, Str("yes")}

(* A well-formed entry of section n, as the site's content files are written: *)
(* sectionTitle and category copied from the registry                         *)
Base(n) ==
    [ title         |-> Str("Threads and blocks"),
      description   |-> Str("How a grid is laid out"),
      sectionNumber |-> Num(n),
      sectionTitle  |-> Str(SECTION_TITLES[n]),
      lectureNumber |-> Num(1),
      lectureTitle  |-> Str("Kernel launch"),
      difficulty    |-> Str("intermediate"),
      tags          |-> Arr(<<Str("cuda")>>),
      category      |-> Str(SECTION_CATEGORIES[n]),
      thumbnail     |-> Undefined,
      order         |-> Num(1),
      draft         |-> Undefined ]

RECURSIVE Deviations(_, _)
Deviations(k, base) ==
    IF k = 0 THEN {base}
    ELSE LET prev == Deviations(k - 1, base)
         IN  prev \cup UNION { { [r EXCEPT ![f] = v] : r \in prev, v \in Alternatives(f) } :
                                f \in InputKeys }

(* the well-formed entry of every section, and the entries that differ from *)
(* the first section's in at most MaxDeviations keys                        *)
Records == { Base(n) : n \in 1..TOTAL_SECTIONS } \cup Deviations(MaxDeviations, Base(1))

BatchFields == {"tags", "thumbnail"}

BatchRecords ==
    {Base(1)} \cup UNION { { [Base(1) EXCEPT ![f] = v] : v \in Alternatives(f) } :
                            f \in BatchFields }

NoResult == [ok |-> FALSE, data |-> NoEntry, issues |-> {}]
NoLookup == [n |-> 0, title |-> Lookup(<<>>, 0), category |-> Lookup(<<>>, 0)]

-----------------------------------------------------------------------------
(* A build of one entry: the collection validates its front-matter, a page  *)
(* reads the registry.                                                      *)

Init ==
    /\ titles = SECTION_TITLES
    /\ categories = SECTION_CATEGORIES
    /\ imageImpl \in ImageImpls
    /\ raw \in Records
    /\ pc = "loaded"
    /\ out = NoResult
    /\ out2 = NoResult
    /\ looked = NoLookup
    /\ batch = <<>>
    /\ results = <<>>
    /\ cursor = 0
    /\ workers = <<>>

Validate ==
    /\ pc = "loaded"
    /\ out' = safeParse(raw, imageImpl)
    /\ pc' = "validated"
    /\ UNCHANGED <<titles, categories, imageImpl, raw, out2, looked,
                   batch, results, cursor, workers>>

(* the validated entry is validated a second time *)
Revalidate ==
    /\ pc = "validated"
    /\ out.ok
    /\ out2' = safeParse(out.data, imageImpl)
    /\ pc' = "revalidated"
    /\ UNCHANGED <<titles, categories, imageImpl, raw, out, looked,
                   batch, results, cursor, workers>>

(* a page reads SECTION_TITLES[n] and SECTION_CATEGORIES[n] *)
LookupSection(n) ==
    /\ pc = "revalidated" \/ (pc = "validated" /\ ~out.ok)
    /\ looked' = [n |-> n, title |-> Lookup(titles, n),
                  category |-> Lookup(categories, n)]
    /\ pc' = "rendered"
    /\ UNCHANGED <<titles, categories, imageImpl, raw, out, out2,
                   batch, results, cursor, workers>>

Next ==
    \/ Validate
    \/ Revalidate
    \/ \E n \in -MinInt..MaxInt : LookupSection(n)

Spec == Init /\ [][Next]_vars

-----------------------------------------------------------------------------
(* A build of a batch of entries by several workers: a worker takes the     *)
(* next entry the loader found and validates it.                            *)

Entries == 1..BatchSize
Workers == 1..NumWorkers

InitBatch ==
    /\ titles = SECTION_TITLES
    /\ categories = SECTION_CATEGORIES
    /\ imageImpl \in ImageImpls
    /\ raw = Base(1)
    /\ pc = "batch"
    /\ out = NoResult
    /\ out2 = NoResult
    /\ looked = NoLookup
    /\ batch \in [Entries -> BatchRecords]
    /\ results = <<>>
    /\ cursor = 0
    /\ workers = [w \in Workers |-> [pc |-> "idle", entry |-> 0]]

TakeEntry(w) ==
    /\ workers[w].pc = "idle"
    /\ cursor < BatchSize
    /\ cursor' = cursor + 1
    /\ workers' = [workers EXCEPT ![w] = [pc |-> "parsing", entry |-> cursor + 1]]
    /\ UNCHANGED <<titles, categories, imageImpl, raw, pc, out, out2, looked,
                   batch, results>>

ParsedEntryShared(w) == safeParse(batch[cursor], imageImpl)

ParsedEntry(w) == safeParse(batch[workers[w].entry], imageImpl)

ValidateEntry(w) ==
    /\ workers[w].pc = "parsing"
    /\ results' = (workers[w].entry :> ParsedEntry(w)) @@ results
    /\ workers' = [workers EXCEPT ![w] = [pc |-> "idle", entry |-> 0]]
    /\ UNCHANGED <<titles, categories, imageImpl, raw, pc, out, out2, looked,
                   batch, cursor>>

NextBatch == \E w \in Workers : TakeEntry(w) \/ ValidateEntry(w)

SpecBatch == InitBatch /\ [][NextBatch]_vars

-----------------------------------------------------------------------------
(* Vocabulary of the properties *)

Validated == pc \in {"validated", "revalidated", "rendered"}
Revalidated == pc \in {"revalidated", "rendered"} /\ out.ok

(* the top-level fields a failed validation names *)
OffendingFields(res) == { x.path[1] : x \in res.issues }

(* every field of r outside F passes its own schema *)
ValidExcept(r, F) ==
    \A f \in Fields \ F : Parse(schema[f], Get(r, f), imageImpl).issues = {}

RegistryCategories == { categories[n] : n \in DOMAIN categories }
SchemaCategories == { CategoryEnum[i] : i \in 1..Len(CategoryEnum) }
SectionsOf(c) == { n \in DOMAIN categories : categories[n] = c }

RegistryConsistent(r) ==
    /\ IsInteger(r.sectionNumber)
    /\ IntOf(r.sectionNumber) \in DOMAIN titles \cap DOMAIN categories
    /\ r.sectionTitle = Str(titles[IntOf(r.sectionNumber)])
    /\ r.category = Str(categories[IntOf(r.sectionNumber)])

-----------------------------------------------------------------------------
(* C1 (as stated): a registry lookup of a section number in 1..12 yields a  *)
(* defined, non-empty title and category, and a lookup of any other integer *)
(* fails with OutOfRangeError or another explicit absence signal, that is,  *)
(* it does not end in a silent undefined.                                   *)
C1_LookupFailsOutsideRange ==
    pc = "rendered" =>
      /\ looked.n \in 1..12 =>
           /\ looked.title.kind = "value" /\ looked.title.value # ""
           /\ looked.category.kind = "value" /\ looked.category.value # ""
      /\ looked.n \notin 1..12 =>
           /\ looked.title.kind \notin {"value", "undefined"}
           /\ looked.category.kind \notin {"value", "undefined"}

(* C1 (amended): a registry lookup of a section number in 1..12 yields a    *)
(* defined, non-empty title and category; a lookup of any other integer     *)
(* raises nothing and yields undefined for both tables.                     *)
C1_LookupUndefinedOutsideRange ==
    pc = "rendered" =>
      /\ looked.n \in 1..12 =>
           /\ looked.title.kind = "value" /\ looked.title.value # ""
           /\ looked.category.kind = "value" /\ looked.category.value # ""
      /\ looked.n \notin 1..12 =>
           /\ looked.title.kind = "undefined"
           /\ looked.category.kind = "undefined"

C1_Witness ==
    /\ pc = "rendered"
    /\ looked.n = 13
    /\ looked.title.kind = "undefined"
    /\ looked.category.kind = "undefined"

(* C2: with every other field valid, an integer sectionNumber in 1..12      *)
(* validates and one outside 1..12 fails with sectionNumber as the only     *)
(* offending field.                                                         *)
C2_SectionNumberRange ==
    (Validated /\ IsInteger(raw.sectionNumber) /\ ValidExcept(raw, {"sectionNumber"})) =>
      IF IntOf(raw.sectionNumber) \in 1..12
      THEN out.ok /\ out.data.sectionNumber = raw.sectionNumber
      ELSE ~out.ok /\ OffendingFields(out) = {"sectionNumber"}

C2_Witness ==
    /\ Validated
    /\ raw.sectionNumber = Num(0)
    /\ ValidExcept(raw, {"sectionNumber"})
    /\ ~out.ok
    /\ OffendingFields(out) = {"sectionNumber"}

(* C3: with every other field valid, every integer lectureNumber >= 0       *)
(* validates (zero included, no upper bound) and every negative one fails.  *)
C3_LectureNumberNonNegative ==
    (Validated /\ IsInteger(raw.lectureNumber) /\ ValidExcept(raw, {"lectureNumber"})) =>
      IF IntOf(raw.lectureNumber) >= 0
      THEN out.ok /\ out.data.lectureNumber = raw.lectureNumber
      ELSE ~out.ok /\ "lectureNumber" \in OffendingFields(out)

C3_Witness ==
    /\ Validated
    /\ raw.lectureNumber = Num(0)
    /\ ValidExcept(raw, {"lectureNumber"})
    /\ out.ok

(* C4: a category or difficulty that is present validates exactly when it   *)
(* is, character for character, a member of its closed set; a member comes  *)
(* back unchanged, anything else fails with that field as the offending one.*)
C4_ClosedSets ==
    LET closed ==
          [ category |-> { "gpu-hardware", "setup", "cuda-basics", "profiling",
                           "performance", "indexing", "memory-optimization",
                           "debugging", "algorithms" },
            difficulty |-> { "beginner", "intermediate", "advanced" } ]
    IN  \A f \in {"category", "difficulty"} :
          (Validated /\ raw[f] # Undefined /\ ValidExcept(raw, {f})) =>
            IF raw[f].t = "string" /\ raw[f].s \in closed[f]
            THEN out.ok /\ out.data[f] = raw[f]
            ELSE ~out.ok /\ OffendingFields(out) = {f}

C4_Witness ==
    /\ Validated
    /\ raw.category = Str("networking")
    /\ ValidExcept(raw, {"category"})
    /\ ~out.ok
    /\ OffendingFields(out) = {"category"}

(* C5: an otherwise valid record that omits difficulty, tags or category    *)
(* validates, and the entry carries "beginner", the empty sequence or       *)
(* "gpu-hardware" in its place; a value that is present is never replaced   *)
(* by a default.                                                            *)
C5_DefaultsApplied ==
    LET default == [ difficulty |-> Str("beginner"),
                     tags       |-> Arr(<<>>),
                     category   |-> Str("gpu-hardware") ]
    IN  \A f \in DOMAIN default :
          /\ (Validated /\ raw[f] = Undefined /\ ValidExcept(raw, {f})) => out.ok
          /\ (Validated /\ out.ok) =>
               out.data[f] = IF raw[f] = Undefined THEN default[f] ELSE raw[f]

C5_Witness ==
    /\ Validated
    /\ raw.tags = Undefined
    /\ out.ok
    /\ out.data.tags = Arr(<<>>)
    /\ out.data.difficulty = raw.difficulty

(* C6 (as stated): validating the entry a successful validation produced    *)
(* succeeds and produces the same entry, field for field.                   *)
C6_RevalidationIdentical ==
    Revalidated => (out2.ok /\ out2.data = out.data)

(* C6 (amended): for a record without a thumbnail, validating the entry a   *)
(* successful validation produced succeeds and produces the same entry,     *)
(* field for field.                                                         *)
C6_RevalidationIdenticalWithoutThumbnail ==
    (Revalidated /\ Get(raw, "thumbnail") = Undefined) =>
      (out2.ok /\ out2.data = out.data)

C6_Witness ==
    /\ pc = "revalidated"
    /\ raw.thumbnail = Undefined
    /\ raw.tags = Undefined
    /\ out2.ok
    /\ out2.data = out.data
    /\ out.data.tags = Arr(<<>>)

(* C7 (as stated): a record whose title, description or sectionTitle is the *)
(* empty string fails validation, so a validated entry has all three        *)
(* non-empty.                                                               *)
C7_EmptyStringsRejected ==
    \A f \in {"title", "description", "sectionTitle"} :
      /\ (Validated /\ raw[f] = Str("")) => ~out.ok
      /\ (Validated /\ out.ok) => out.data[f] # Str("")

(* C7 (amended): title, description and sectionTitle must be strings: a     *)
(* record in which one of them is absent or not a string fails with that    *)
(* field among the offending ones, the empty string is accepted like any    *)
(* other string, and a validated entry has all three as strings.            *)
C7_RequiredStrings ==
    \A f \in {"title", "description", "sectionTitle"} :
      /\ (Validated /\ raw[f].t # "string") =>
           (~out.ok /\ f \in OffendingFields(out))
      /\ (Validated /\ raw[f].t = "string" /\ ValidExcept(raw, {f})) =>
           (out.ok /\ out.data[f] = raw[f])
      /\ (Validated /\ out.ok) => out.data[f].t = "string"

C7_Witness ==
    /\ Validated
    /\ raw.title = Str("")
    /\ out.ok
    /\ out.data.title = Str("")

(* C8 (as stated): the registry's category tags are a superset of the       *)
(* schema's category enumeration, and they contain `algorithms` in addition *)
(* to the schema's members, as the category of exactly two sections.        *)
C8_RegistryHasExtraAlgorithms ==
    /\ SchemaCategories \subseteq RegistryCategories
    /\ "algorithms" \in RegistryCategories \ SchemaCategories
    /\ Cardinality(SectionsOf("algorithms")) = 2

(* C8 (amended): the registry's category tags are exactly the schema's      *)
(* category enumeration (none omitted, none added); `algorithms` belongs to *)
(* both and is the category of exactly two sections.                        *)
C8_RegistryEqualsSchemaCategories ==
    /\ SchemaCategories \subseteq RegistryCategories
    /\ RegistryCategories \subseteq SchemaCategories
    /\ "algorithms" \in RegistryCategories
    /\ Cardinality(SectionsOf("algorithms")) = 2

C8_Witness ==
    /\ pc = "rendered"
    /\ looked.n = 11
    /\ looked.category = [kind |-> "value", value |-> "algorithms"]

C10_RegistryConsistentEntriesValidate ==
    /\ DOMAIN titles = 1..TOTAL_SECTIONS
    /\ DOMAIN categories = DOMAIN titles
    /\ \A n \in DOMAIN categories : Member(CategoryEnum, categories[n])
    /\ (Validated /\ IsInteger(raw.sectionNumber) /\ ValidExcept(raw, {"sectionNumber"})) =>
         (out.ok <=> IntOf(raw.sectionNumber) \in DOMAIN titles)
    /\ (Validated /\ RegistryConsistent(raw)
          /\ ValidExcept(raw, {"sectionNumber", "sectionTitle", "category"})) => out.ok

C10_Witness ==
    /\ Validated
    /\ raw.sectionNumber = Num(11)
    /\ RegistryConsistent(raw)
    /\ raw.category = Str("algorithms")
    /\ out.ok

====
